---------------------------- MODULE Spec2Model ----------------------------
(***************************************************************************)
(* Stalk / GMF: mutual-follow reconciliation and follower-graph traversal. *)
(*                                                                         *)
(* The repository holds several variants of one script:                   *)
(*   - GitHubMutualFollowManager (src/unnamed/part_002, lines 7-280)       *)
(*   - StalkManager with recursiveStalk (src/unnamed/part_002, 288-725)   *)
(*   - StalkManager with dfsStalk, fixed limits (src/unnamed/part_003)    *)
(*   - StalkManager with dfsStalk, configurable (src/README.md, 193-805)  *)
(*   - StalkManager with bfsStalk, configurable (src/unnamed/part_001)    *)
(* The model is the configurable StalkManager with the traversal strategy *)
(* as a parameter; the fixed variants are the same code with the skip     *)
(* flags off and maxDepth / maxFollowsPerUser bounded.                    *)
(***************************************************************************)
EXTENDS Integers, Sequences, FiniteSets, TLC

(***************************************************************************)
(* Bounds of the model.                                                    *)
(***************************************************************************)
\* longest follower list the remote side holds for a third-party account
MaxFollowers == 2
\* longest own following / followers list in a full run
MaxOwn == 2
\* largest bounded --max-depth value
MaxDepthArg == 2
\* largest bounded --max-follows value in a traversal
MaxFollowsArg == 1
\* longest list / largest cap when getUserFollowers is exercised alone
MaxList == 6
\* longest list when the reconciliation diff is exercised alone
MaxDiff == 3
\* last page of a getUserFollowers call whose request can be rejected
MaxFailPage == 1

(***************************************************************************)
(* Program constants.                                                      *)
(***************************************************************************)
\* per_page of every list request (100 in the source, scaled down)
PER_PAGE == 2
\* the IEEE value Infinity: larger than every count of the model
Infinity == 1000000
\* Number.MAX_SAFE_INTEGER, the effective limit for Infinity
MAX_SAFE_INTEGER == 999999

\* the accounts of the model; Self is the authenticated account
Self == "me"
Users == {"me", "root", "x", "y"}
Others == Users \ {Self}
\* JavaScript null
Null == "null"

(***************************************************************************)
(* Helpers.                                                                *)
(***************************************************************************)
Min(a, b) == IF a < b THEN a ELSE b
Max(a, b) == IF a > b THEN a ELSE b
Range(s) == {s[k] : k \in 1..Len(s)}
IsDupFree(s) == \A a, b \in 1..Len(s) : s[a] = s[b] => a = b
\* the duplicate-free sequences over S of length at most n
DupFreeSeqs(S, n) ==
  UNION {{s \in [1..m -> S] : IsDupFree(s)} : m \in 0..n}
\* position of the first occurrence of e in s (0 when absent)
IndexOf(s, e) ==
  IF e \in Range(s) THEN CHOOSE k \in 1..Len(s) : s[k] = e /\ \A j \in 1..(k-1) : s[j] # e
  ELSE 0

(***************************************************************************)
(* Reconciliation diff (run, src/unnamed/part_001:455-463).                *)
(***************************************************************************)
\* followers.filter((user) => !followingSet.has(user))
toFollowOfMutant(followingL, followersL) ==
  SelectSeq(followersL, LAMBDA user : user \in Range(followingL))
toFollowOf(followingL, followersL) ==
  SelectSeq(followersL, LAMBDA user : user \notin Range(followingL))
\* following.filter((user) => !followersSet.has(user))
toUnfollowOf(followingL, followersL) ==
  SelectSeq(followingL, LAMBDA user : user \notin Range(followersL))

(***************************************************************************)
(* The remote API: one page of a list (GitHub's page / per_page).          *)
(***************************************************************************)
\* octokit.rest.users.listFollowersForUser({username, per_page, page})
listPage(list, perPage, page) ==
  SubSeq(list, (page - 1) * perPage + 1, Min(page * perPage, Len(list)))

(***************************************************************************)
(* getUserFollowers (src/unnamed/part_001:196-240).                        *)
(***************************************************************************)
\* limit === Infinity ? Number.MAX_SAFE_INTEGER : limit
effectiveLimitOf(limit) == IF limit = Infinity THEN MAX_SAFE_INTEGER ELSE limit
\* Math.min(100, effectiveLimit - fetched)
perPageOfMutant(effectiveLimit, fetched) == PER_PAGE
perPageOf(effectiveLimit, fetched) == Min(PER_PAGE, effectiveLimit - fetched)

\* catch (error) { ...; break; }: the entries of the earlier pages are kept
onRejectedMutant(acc, req) ==
  [followers |-> <<>>, requests |-> Append(acc.requests, req)]
onRejected(acc, req) == [acc EXCEPT !.requests = Append(@, req)]

\* The while loop. failAt is the page whose request is rejected (0: none).
\* The result holds the returned list and the page requests made, each
\* with the per_page asked and the number of entries got (-1: rejected).
RECURSIVE fetchLoop(_, _, _, _, _, _)
fetchLoop(list, effectiveLimit, failAt, page, fetched, acc) ==
  IF ~(fetched < effectiveLimit) THEN acc
  ELSE
    LET perPage == perPageOf(effectiveLimit, fetched) IN
    IF page = failAt
    THEN onRejected(acc, [page |-> page, per_page |-> perPage, got |-> -1])
    ELSE
      LET data == listPage(list, perPage, page)
          req == [page |-> page, per_page |-> perPage, got |-> Len(data)]
      IN
      IF Len(data) = 0
      THEN [acc EXCEPT !.requests = Append(@, req)]
      ELSE
        LET acc2 == [followers |-> acc.followers \o data,
                     requests |-> Append(acc.requests, req)]
        IN
        IF Len(data) < perPage THEN acc2
        ELSE fetchLoop(list, effectiveLimit, failAt, page + 1, fetched + Len(data), acc2)

getUserFollowers(list, limit, failAt) ==
  fetchLoop(list, effectiveLimitOf(limit), failAt, 1, 0,
            [followers |-> <<>>, requests |-> <<>>])

(***************************************************************************)
(* State.                                                                  *)
(***************************************************************************)
VARIABLES
  pc,                \* position of run / main
  exitCode,          \* process exit code once the process has ended
  token,             \* process.env.GITHUB_TOKEN is set
  argv,              \* the command line: dryRun, ambitious, target,
                     \*   maxDepth, maxFollows, skipFollowBack, skipUnfollow
  strategy,          \* which main.js variant runs: "dfs" or "bfs"
  failPages,         \* remote side: the pages of a third-party follower list
                     \*   whose request it may reject (0: none)
  username,          \* this.username
  isDryRun,          \* this.isDryRun
  isAmbitious,       \* this.isAmbitious
  targetUser,        \* this.targetUser
  maxDepth,          \* this.maxDepth
  maxFollowsPerUser, \* this.maxFollowsPerUser
  skipFollowBack,    \* this.skipFollowBack
  skipUnfollow,      \* this.skipUnfollow
  processedUsers,    \* this.processedUsers
  followedInSession, \* this.followedInSession
  stats,             \* this.dfsStats / this.bfsStats
  remote,            \* remote side: own following and followers lists
  graph,             \* remote side: followers lists of the accounts asked so far
  own,               \* getAllFollowing / getAllFollowers in progress
  following,         \* run: the fetched following list
  followers,         \* run: the fetched followers list
  followingSet,      \* run: followingSet (currentFollowing of the traversal)
  toFollow,          \* run: toFollow
  toUnfollow,        \* run: toUnfollow
  i,                 \* run: loop index of the current batch (1-based)
  counts,            \* run: the success / fail counters
  stalkResult,       \* run: the {followed, skipped} result of the traversal
  stack,             \* dfsStalk / recursiveStalk: the active calls, top last
  queue,             \* bfsStalk: queue
  node,              \* bfsStalk: the dequeued node being processed
  bfs,               \* bfsStalk: its local counters
  trace,             \* history: the calls made so far, in order
  fetchCall,         \* a getUserFollowers call on its own: its arguments
  fetchReturned,     \* a getUserFollowers call on its own: its result
  previous           \* what an earlier run over the same remote side ended
                     \*   with, when the program is run a second time

vars == <<pc, exitCode, token, argv, strategy, failPages, username, isDryRun, isAmbitious,
          targetUser, maxDepth, maxFollowsPerUser, skipFollowBack, skipUnfollow,
          processedUsers, followedInSession, stats, remote, graph, own,
          following, followers, followingSet, toFollow, toUnfollow, i, counts,
          stalkResult, stack, queue, node, bfs, trace, fetchCall,
          fetchReturned, previous>>

\* what no step of one run changes: the environment, the command line, the
\* variant, the remote side's failures, the record of an earlier run
configVars == <<token, argv, strategy, failPages, previous>>
fetchVars == <<fetchCall, fetchReturned>>
fieldVars == <<username, isDryRun, isAmbitious, targetUser, maxDepth,
               maxFollowsPerUser, skipFollowBack, skipUnfollow>>
runVars == <<following, followers, toFollow, toUnfollow, i, counts>>
stalkVars == <<stack, queue, node, bfs>>

(***************************************************************************)
(* The command line.                                                       *)
(***************************************************************************)
\* a numeric flag: absent, or followed by a text that parseInt reads as
\* NaN ("abc"), or by a numeral
NoArg == [kind |-> "absent", val |-> 0]
TextArg == [kind |-> "text", val |-> 0]
NumArg(n) == [kind |-> "num", val |-> n]

\* parseMaxDepth / parseMaxFollows (src/unnamed/part_001:50-86):
\* "throw" stands for the thrown Error
parseMax(arg) ==
  IF arg.kind = "absent" THEN Infinity
  ELSE IF arg.kind = "text" \/ arg.val < 1 THEN -1
  ELSE arg.val
ParseThrows(arg) == parseMax(arg) = -1

(***************************************************************************)
(* History: the calls made so far.                                         *)
(***************************************************************************)
\* op: "follow" | "unfollow" | "fetch" | "sleep" | "dequeue"
\* user: the account; ok: the call returned true; net: a request was sent;
\* phase: pc of run; cid: the traversal call (dfsStalk invocation or
\* dequeued node) that made it, 0 outside the traversal; depth: its depth;
\* calls: the active dfsStalk calls; child: the dfsStalk call a successful
\* follow leads to; ms: the delay of a sleep; inflight: the requests of
\* other calls that are awaiting their response when the call is made;
\* got: the list a fetch returned; page: the page whose request was
\* rejected (0: none)
Event(op, user, ok, net, cid, depth, calls, child, ms) ==
  [op |-> op, user |-> user, ok |-> ok, net |-> net, phase |-> pc,
   cid |-> cid, depth |-> depth, calls |-> calls, child |-> child, ms |-> ms,
   inflight |-> Cardinality({kind \in {"following", "followers"} : own[kind].pending}),
   got |-> <<>>, page |-> 0]
Sleep(ms) == Event("sleep", Null, TRUE, FALSE, 0, 0, <<>>, 0, ms)
\* one page request of getAllFollowing / getAllFollowers and its response
PageEvent(kind, page, ok, data) ==
  [Event("page", kind, ok, TRUE, 0, 0, <<>>, 0, 0) EXCEPT
     !.inflight = @ - 1, !.page = IF ok THEN 0 ELSE page, !.got = data]
\* await this.sleep(ms) after a page that is not empty
pageDelay(data, ms) == IF Len(data) > 0 THEN <<Sleep(ms)>> ELSE <<>>
\* the rejected request of a getUserFollowers result (0: none)
rejectedPage(result) ==
  IF \E k \in 1..Len(result.requests) : result.requests[k].got = -1
  THEN result.requests[Len(result.requests)].page
  ELSE 0
\* the 200 ms sleeps of a getUserFollowers call: one after every page that
\* is not empty
fetchSleeps(result) ==
  [k \in 1..Cardinality({r \in 1..Len(result.requests) : result.requests[r].got > 0})
     |-> Sleep(200)]
\* a getUserFollowers call and the list it returned
FetchEvent(user, result, cid, depth, calls) ==
  [Event("fetch", user, rejectedPage(result) = 0, TRUE, cid, depth, calls, 0, 0)
     EXCEPT !.got = result.followers, !.page = rejectedPage(result)]

(***************************************************************************)
(* followUser / unfollowUser (src/unnamed/part_001:242-279).               *)
(***************************************************************************)
\* if (this.isDryRun) return true, before the request
sendsRequestMutant(dry) == TRUE
sendsRequest(dry) == ~dry
\* the values the call can return: the request may be rejected
outcomes(dry) == IF sendsRequest(dry) THEN BOOLEAN ELSE {TRUE}

\* this.followedInSession.add(username) after an accepted request
followedInSessionAfter(user, ok) ==
  IF sendsRequest(isDryRun) /\ ok THEN followedInSession \cup {user}
  ELSE followedInSession

\* the remote following list after a follow / unfollow request
remoteAfterFollow(user, ok) ==
  IF sendsRequest(isDryRun) /\ ok /\ user \notin Range(remote.following)
  THEN [remote EXCEPT !.following = Append(@, user)]
  ELSE remote
remoteAfterUnfollow(user, ok) ==
  IF sendsRequest(isDryRun) /\ ok
  THEN [remote EXCEPT !.following = SelectSeq(@, LAMBDA u : u # user)]
  ELSE remote

(***************************************************************************)
(* main and the constructor (src/unnamed/part_001:8-33, 680-724).          *)
(***************************************************************************)
\* process.exit(code), or the normal end of the process
Exit(code) == pc' = "done" /\ exitCode' = code

\* main(): without a token exit(1); a throw of the constructor rejects
\* main()'s promise, which main().catch(console.error) only prints, so the
\* process ends with code 0
main ==
  /\ pc = "main"
  /\ IF ~token
     THEN Exit(1) /\ UNCHANGED fieldVars
     ELSE IF ParseThrows(argv.maxDepth) \/ ParseThrows(argv.maxFollows)
     THEN Exit(0) /\ UNCHANGED fieldVars
     ELSE /\ pc' = "init"
          /\ isDryRun' = argv.dryRun
          /\ isAmbitious' = argv.ambitious
          /\ targetUser' = IF argv.ambitious THEN argv.target ELSE Null
          /\ maxDepth' = parseMax(argv.maxDepth)
          /\ maxFollowsPerUser' = parseMax(argv.maxFollows)
          /\ skipFollowBack' = argv.skipFollowBack
          /\ skipUnfollow' = argv.skipUnfollow
          /\ UNCHANGED <<exitCode, username>>
  /\ UNCHANGED <<configVars, fetchVars, processedUsers, followedInSession, stats,
                 remote, graph, own, followingSet, runVars, stalkResult,
                 stalkVars, trace>>

(***************************************************************************)
(* init (src/unnamed/part_001:92-136).                                     *)
(***************************************************************************)
\* if (this.isAmbitious) { if (!this.targetUser) throw ... }
targetMissingMutant(ambitious, target) == FALSE
targetMissing(ambitious, target) == ambitious /\ target = Null

\* getAuthenticated is rejected, or --ambitious has no target (this.username
\* is set by then): the Error reaches the catch of run, which calls
\* process.exit(1). Otherwise run goes on to Promise.all, which sends the
\* first page request of both own lists.
init ==
  /\ pc = "init"
  /\ \E authenticated \in BOOLEAN :
       IF ~authenticated
       THEN Exit(1) /\ UNCHANGED <<username, own>>
       ELSE IF targetMissing(isAmbitious, targetUser)
       THEN Exit(1) /\ username' = Self /\ UNCHANGED own
       ELSE /\ pc' = "fetchOwn"
            /\ username' = Self
            /\ own' = [own EXCEPT !.following.pending = TRUE,
                                  !.followers.pending = TRUE]
            /\ UNCHANGED exitCode
  /\ UNCHANGED <<configVars, fetchVars, isDryRun, isAmbitious, targetUser, maxDepth,
                 maxFollowsPerUser, skipFollowBack, skipUnfollow,
                 processedUsers, followedInSession, stats, remote, graph,
                 followingSet, runVars, stalkResult, stalkVars, trace>>

(***************************************************************************)
(* getAllFollowing / getAllFollowers (src/unnamed/part_001:138-194):       *)
(* the two loops run interleaved under Promise.all                        *)
(* (src/unnamed/part_001:453). getAllPage is the response to the page      *)
(* request in flight and the loop body; getAllSend is the end of the       *)
(* 100 ms sleep and the next page request.                                 *)
(***************************************************************************)
\* catch (error) { throw new Error(...) }: a rejected page request rejects
\* Promise.all, and the catch of run calls process.exit(1)
ownPageFatalMutant(rejected) == FALSE
ownPageFatal(rejected) == rejected

getAllPage(kind) ==
  /\ pc = "fetchOwn"
  /\ ~own[kind].done /\ own[kind].pending
  /\ \E rejected \in BOOLEAN :
       LET data == IF rejected THEN <<>>
                   ELSE listPage(remote[kind], PER_PAGE, own[kind].page)
       IN
       /\ trace' = trace \o <<PageEvent(kind, own[kind].page, ~rejected, data)>>
                         \o pageDelay(data, 100)
       /\ IF ownPageFatal(rejected)
          THEN Exit(1) /\ own' = [own EXCEPT ![kind].pending = FALSE]
          ELSE /\ own' = IF Len(data) = 0
                         THEN [own EXCEPT ![kind].done = TRUE,
                                          ![kind].pending = FALSE]
                         ELSE [own EXCEPT ![kind].list = @ \o data,
                                          ![kind].page = @ + 1,
                                          ![kind].pending = FALSE]
               /\ UNCHANGED <<pc, exitCode>>
  /\ UNCHANGED <<configVars, fetchVars, fieldVars, processedUsers, followedInSession,
                 stats, remote, graph, followingSet, runVars, stalkResult,
                 stalkVars>>

getAllSend(kind) ==
  /\ pc = "fetchOwn"
  /\ ~own[kind].done /\ ~own[kind].pending
  /\ own' = [own EXCEPT ![kind].pending = TRUE]
  /\ UNCHANGED <<pc, exitCode, configVars, fetchVars, fieldVars, processedUsers,
                 followedInSession, stats, remote, graph, followingSet, runVars,
                 stalkResult, stalkVars, trace>>

getAllFollowing == getAllPage("following")
getAllFollowers == getAllPage("followers")

(***************************************************************************)
(* run, from the result of Promise.all to the first batch                  *)
(* (src/unnamed/part_001:453-529).                                         *)
(***************************************************************************)
ZeroCounts ==
  [followSuccessCount |-> 0, followFailCount |-> 0,
   unfollowSuccessCount |-> 0, unfollowFailCount |-> 0]

\* the two early returns of run: nothing to do, or every operation skipped
returnsEarlyMutant(tf, tu) == skipFollowBack /\ skipUnfollow /\ ~isAmbitious
returnsEarly(tf, tu) ==
  LET followBackSkipped == skipFollowBack \/ Len(tf) = 0
      unfollowSkipped == skipUnfollow \/ Len(tu) = 0
  IN
  \/ Len(tf) = 0 /\ Len(tu) = 0 /\ ~isAmbitious
  \/ followBackSkipped /\ unfollowSkipped /\ ~isAmbitious

\* await Promise.all([this.getAllFollowing(), this.getAllFollowers()])
bothFetchedMutant == own.following.done
bothFetched == own.following.done /\ own.followers.done

\* the order of the phases of run: the follow-back batch, then the unfollow
\* batch, then the traversal
phaseAfterMutant(phase) ==
  CASE phase = "analyze" -> "unfollow"
    [] phase = "unfollow" -> "followBack"
    [] phase = "followBack" -> "stalkStart"
phaseAfter(phase) ==
  CASE phase = "analyze" -> "followBack"
    [] phase = "followBack" -> "unfollow"
    [] phase = "unfollow" -> "stalkStart"

analyze ==
  /\ pc = "fetchOwn"
  /\ bothFetched
  /\ LET fing == own.following.list
         fers == own.followers.list
         tf == toFollowOf(fing, fers)
         tu == toUnfollowOf(fing, fers)
     IN
     /\ following' = fing
     /\ followers' = fers
     /\ followingSet' = Range(fing)
     /\ toFollow' = tf
     /\ toUnfollow' = tu
     /\ IF returnsEarly(tf, tu)
        THEN Exit(0) /\ UNCHANGED trace
        ELSE /\ pc' = phaseAfter("analyze")
             /\ trace' = IF ~isDryRun THEN Append(trace, Sleep(3000)) ELSE trace
             /\ UNCHANGED exitCode
  /\ i' = 1
  /\ counts' = ZeroCounts
  /\ UNCHANGED <<configVars, fetchVars, fieldVars, processedUsers, followedInSession,
                 stats, remote, graph, own, stalkResult, stalkVars>>

(***************************************************************************)
(* run: the follow-back batch (src/unnamed/part_001:531-553).              *)
(***************************************************************************)
\* followingSet.add(user) / currentFollowing.add(follower)
addFollowingMutant(set, user) == set
addFollowing(set, user) == set \cup {user}

\* followingSet.delete(user)
removeFollowingMutant(set, user) == set
removeFollowing(set, user) == set \ {user}

\* the for loop goes on with the next account whatever the call returned
afterAttemptMutant(idx, success, batch) ==
  IF success THEN idx + 1 ELSE Len(batch) + 1
afterAttempt(idx, success, batch) == idx + 1

\* toFollow.length > 0 && !this.skipFollowBack
followBackRuns == Len(toFollow) > 0 /\ ~skipFollowBack
\* toUnfollow.length > 0 && !this.skipUnfollow
unfollowRunsMutant == Len(toUnfollow) > 0 /\ ~skipFollowBack
unfollowRuns == Len(toUnfollow) > 0 /\ ~skipUnfollow

\* the 1-second delay of a batch: not in dry-run, not after the last item
batchDelayMutant(idx, batch) ==
  IF ~isDryRun THEN <<Sleep(1000)>> ELSE <<>>
batchDelay(idx, batch) ==
  IF ~isDryRun /\ idx < Len(batch) THEN <<Sleep(1000)>> ELSE <<>>

followBack ==
  /\ pc = "followBack"
  /\ followBackRuns
  /\ i <= Len(toFollow)
  /\ LET user == toFollow[i] IN
     \E success \in outcomes(isDryRun) :
       /\ followedInSession' = followedInSessionAfter(user, success)
       /\ remote' = remoteAfterFollow(user, success)
       /\ counts' = IF success
                    THEN [counts EXCEPT !.followSuccessCount = @ + 1]
                    ELSE [counts EXCEPT !.followFailCount = @ + 1]
       /\ followingSet' = IF success THEN addFollowing(followingSet, user)
                          ELSE followingSet
       /\ trace' = trace
                   \o <<Event("follow", user, success, sendsRequest(isDryRun),
                              0, 0, <<>>, 0, 0)>>
                   \o batchDelay(i, toFollow)
       /\ i' = afterAttempt(i, success, toFollow)
  /\ UNCHANGED <<pc, exitCode, configVars, fetchVars, fieldVars, processedUsers, stats,
                 graph, own, following, followers, toFollow, toUnfollow,
                 stalkResult, stalkVars>>

followBackEnd ==
  /\ pc = "followBack"
  /\ ~followBackRuns \/ i > Len(toFollow)
  /\ pc' = phaseAfter("followBack")
  /\ i' = 1
  /\ UNCHANGED <<exitCode, configVars, fetchVars, fieldVars, processedUsers,
                 followedInSession, stats, remote, graph, own, following,
                 followers, followingSet, toFollow, toUnfollow, counts,
                 stalkResult, stalkVars, trace>>

(***************************************************************************)
(* run: the unfollow batch (src/unnamed/part_001:555-577).                 *)
(***************************************************************************)
unfollow ==
  /\ pc = "unfollow"
  /\ unfollowRuns
  /\ i <= Len(toUnfollow)
  /\ LET user == toUnfollow[i] IN
     \E success \in outcomes(isDryRun) :
       /\ remote' = remoteAfterUnfollow(user, success)
       /\ counts' = IF success
                    THEN [counts EXCEPT !.unfollowSuccessCount = @ + 1]
                    ELSE [counts EXCEPT !.unfollowFailCount = @ + 1]
       /\ followingSet' = IF success THEN removeFollowing(followingSet, user)
                          ELSE followingSet
       /\ trace' = trace
                   \o <<Event("unfollow", user, success, sendsRequest(isDryRun),
                              0, 0, <<>>, 0, 0)>>
                   \o batchDelay(i, toUnfollow)
       /\ i' = afterAttempt(i, success, toUnfollow)
  /\ UNCHANGED <<pc, exitCode, configVars, fetchVars, fieldVars, processedUsers,
                 followedInSession, stats, graph, own, following, followers,
                 toFollow, toUnfollow, stalkResult, stalkVars>>

unfollowEnd ==
  /\ pc = "unfollow"
  /\ ~unfollowRuns \/ i > Len(toUnfollow)
  /\ pc' = phaseAfter("unfollow")
  /\ i' = 1
  /\ UNCHANGED <<exitCode, configVars, fetchVars, fieldVars, processedUsers,
                 followedInSession, stats, remote, graph, own, following,
                 followers, followingSet, toFollow, toUnfollow, counts,
                 stalkResult, stalkVars, trace>>

(***************************************************************************)
(* The traversal: what both strategies share.                              *)
(***************************************************************************)
ZeroStats ==
  [totalProcessed |-> 0, totalFollowed |-> 0, maxDepthReached |-> 0,
   levelsProcessed |-> 0]

\* maxDepth !== Infinity && depth >= maxDepth
depthLimitReachedMutant(limit, depth) == limit # Infinity /\ depth > limit
depthLimitReached(limit, depth) == limit # Infinity /\ depth >= limit

\* this.processedUsers.has(username)
isProcessedMutant(set, user) == FALSE
isProcessed(set, user) == user \in set

\* follower === this.username
isSelfMutant(follower) == FALSE
isSelf(follower) == follower = username

\* depth + 1: the depth of the recursive call / of the queue entry
childDepthMutant(depth) == depth
childDepth(depth) == depth + 1

\* if (success): only a follow that returned true leads to the recursive call
\* or to the queue entry
expandsMutant(success) == TRUE
expands(success) == success

\* currentFollowing.has(follower) || this.followedInSession.has(follower)
alreadyFollowingMutant(user) == FALSE
alreadyFollowing(user) == user \in followingSet \/ user \in followedInSession

\* The remote follower graph is static. The list of an account is drawn
\* when the remote side is first asked for it, and kept.
FollowerLists(user) == DupFreeSeqs(Users \ {user}, MaxFollowers)
serverLists(user) ==
  IF user \in DOMAIN graph THEN {graph[user]} ELSE FollowerLists(user)
FailPages == 0..MaxFailPage

\* a dfsStalk call that has not run yet (cid is set when it runs)
NewCall(user, depth) ==
  [username |-> user, depth |-> depth, cid |-> 0, phase |-> "enter",
   followers |-> <<>>, i |-> 1, followedCount |-> 0, skippedCount |-> 0]
NoNode ==
  [username |-> Null, depth |-> 0, cid |-> 0, followers |-> <<>>, i |-> 1,
   levelFollowed |-> 0, levelSkipped |-> 0]
ZeroBfs ==
  [currentLevel |-> 0, usersInCurrentLevel |-> 1, usersInNextLevel |-> 0,
   totalFollowed |-> 0, totalSkipped |-> 0]
ZeroResult == [followed |-> 0, skipped |-> 0]

(***************************************************************************)
(* run: the start of the traversal (src/README.md:706-730,                 *)
(* src/unnamed/part_001:579-600 and 307-322).                              *)
(***************************************************************************)
stalkStart ==
  /\ pc = "stalkStart"
  /\ IF isAmbitious /\ targetUser # Null
     THEN /\ pc' = "stalk"
          /\ trace' = IF ~isDryRun THEN Append(trace, Sleep(5000)) ELSE trace
          /\ stats' = ZeroStats
          /\ IF strategy = "dfs"
             THEN stack' = <<NewCall(targetUser, 0)>> /\ UNCHANGED <<queue, bfs>>
             ELSE /\ queue' = <<[username |-> targetUser, depth |-> 0, parent |-> Null]>>
                  /\ bfs' = ZeroBfs
                  /\ UNCHANGED stack
     ELSE /\ pc' = "report"
          /\ UNCHANGED <<trace, stats, stack, queue, bfs>>
  /\ UNCHANGED <<exitCode, configVars, fetchVars, fieldVars, processedUsers,
                 followedInSession, remote, graph, own, followingSet, runVars,
                 stalkResult, node>>

\* run: the final report and the normal end of the process
\* (src/unnamed/part_001:616-671)
report ==
  /\ pc = "report"
  /\ Exit(0)
  /\ UNCHANGED <<configVars, fetchVars, fieldVars, processedUsers, followedInSession,
                 stats, remote, graph, own, followingSet, runVars, stalkResult,
                 stalkVars, trace>>

(***************************************************************************)
(* dfsStalk (src/README.md:492-569), recursiveStalk                        *)
(* (src/unnamed/part_002:501-555).                                         *)
(***************************************************************************)
Top == stack[Len(stack)]
Callers == SubSeq(stack, 1, Len(stack) - 1)
CallIds(st) == [k \in 1..Len(st) |-> st[k].cid]

\* the recursive call: the callee runs before the caller goes on
pushCallMutant(st, call) == <<call>> \o st
pushCall(st, call) == Append(st, call)

\* followedCount += recursiveResult.followed
addResultMutant(count, result) == count
addResult(count, result) == count + result

\* return result: the caller adds it to its counters and goes on with its
\* next follower; the outermost caller is run
dfsReturn(result) ==
  IF Len(stack) = 1
  THEN /\ stack' = <<>>
       /\ stalkResult' = result
       /\ pc' = "report"
  ELSE /\ stack' = [Callers EXCEPT
                      ![Len(stack) - 1].followedCount = addResult(@, result.followed),
                      ![Len(stack) - 1].skippedCount = @ + result.skipped,
                      ![Len(stack) - 1].i = @ + 1]
       /\ UNCHANGED <<stalkResult, pc>>

\* this.dfsStats.totalProcessed++ is the first statement of dfsStalk: a call
\* that returns at a base case is counted too
countsCallMutant(pruned) == ~pruned
countsCall(pruned) == TRUE

\* dfsStalk from its entry to the end of getUserFollowers
dfsEnter ==
  /\ pc = "stalk" /\ strategy = "dfs"
  /\ Len(stack) > 0 /\ Top.phase = "enter"
  /\ LET pruned == \/ depthLimitReached(maxDepth, Top.depth)
                   \/ isProcessed(processedUsers, Top.username)
         cid == IF countsCall(pruned) THEN stats.totalProcessed + 1
                ELSE stats.totalProcessed
     IN
     /\ stats' = [stats EXCEPT !.totalProcessed = cid,
                               !.maxDepthReached = Max(@, Top.depth)]
     /\ IF pruned
        THEN /\ dfsReturn(ZeroResult)
             /\ UNCHANGED <<processedUsers, graph, trace>>
        ELSE \E list \in serverLists(Top.username), failAt \in failPages :
               LET got == getUserFollowers(list, maxFollowsPerUser, failAt) IN
               /\ processedUsers' = processedUsers \cup {Top.username}
               /\ graph' = (Top.username :> list) @@ graph
               /\ stack' = [stack EXCEPT ![Len(stack)].cid = cid,
                                         ![Len(stack)].phase = "loop",
                                         ![Len(stack)].followers = got.followers]
               /\ trace' = trace
                             \o <<FetchEvent(Top.username, got, cid, Top.depth,
                                             Append(CallIds(Callers), cid))>>
                             \o fetchSleeps(got)
               /\ UNCHANGED <<stalkResult, pc>>
  /\ UNCHANGED <<exitCode, configVars, fetchVars, fieldVars, followedInSession, remote,
                 own, followingSet, runVars, queue, node, bfs>>

\* one iteration of the for loop over followers
dfsLoop ==
  /\ pc = "stalk" /\ strategy = "dfs"
  /\ Len(stack) > 0 /\ Top.phase = "loop" /\ Top.i <= Len(Top.followers)
  /\ LET follower == Top.followers[Top.i] IN
     IF isSelf(follower)
     THEN /\ stack' = [stack EXCEPT ![Len(stack)].i = @ + 1]
          /\ UNCHANGED <<followedInSession, remote, followingSet, stats, trace>>
     ELSE IF alreadyFollowing(follower)
     THEN /\ stack' = [stack EXCEPT ![Len(stack)].i = @ + 1,
                                    ![Len(stack)].skippedCount = @ + 1]
          /\ UNCHANGED <<followedInSession, remote, followingSet, stats, trace>>
     ELSE \E success \in outcomes(isDryRun) :
            /\ followedInSession' = followedInSessionAfter(follower, success)
            /\ remote' = remoteAfterFollow(follower, success)
            /\ IF expands(success)
               THEN /\ stats' = [stats EXCEPT !.totalFollowed = @ + 1]
                    /\ followingSet' = addFollowing(followingSet, follower)
                    /\ stack' = pushCall(
                         [stack EXCEPT ![Len(stack)].followedCount = @ + 1],
                         NewCall(follower, childDepth(Top.depth)))
                    /\ trace' = trace
                         \o <<Event("follow", follower, success, sendsRequest(isDryRun),
                                    Top.cid, Top.depth, CallIds(stack),
                                    stats.totalProcessed + 1, 0),
                              Sleep(1500)>>
               ELSE /\ stack' = [stack EXCEPT ![Len(stack)].i = @ + 1,
                                              ![Len(stack)].skippedCount = @ + 1]
                    /\ trace' = Append(trace,
                         Event("follow", follower, FALSE, sendsRequest(isDryRun),
                               Top.cid, Top.depth, CallIds(stack), 0, 0))
                    /\ UNCHANGED <<stats, followingSet>>
  /\ UNCHANGED <<pc, exitCode, configVars, fetchVars, fieldVars, processedUsers, graph,
                 own, runVars, stalkResult, queue, node, bfs>>

\* the end of the for loop: return { followed, skipped }
dfsDone ==
  /\ pc = "stalk" /\ strategy = "dfs"
  /\ Len(stack) > 0 /\ Top.phase = "loop" /\ Top.i > Len(Top.followers)
  /\ dfsReturn([followed |-> Top.followedCount, skipped |-> Top.skippedCount])
  /\ UNCHANGED <<exitCode, configVars, fetchVars, fieldVars, processedUsers,
                 followedInSession, stats, remote, graph, own, followingSet,
                 runVars, queue, node, bfs, trace>>

(***************************************************************************)
(* bfsStalk (src/unnamed/part_001:307-442).                                *)
(***************************************************************************)
\* queue.push(...)
enqueueMutant(q, entry) == <<entry>> \o q
enqueue(q, entry) == Append(q, entry)

\* maxDepth === Infinity || depth + 1 < maxDepth
withinDepth(limit, depth) == limit = Infinity \/ depth + 1 < limit

\* depth > currentLevel: the dequeued node opens a new level
movedToNewLevelMutant(depth, level) == depth >= level
movedToNewLevel(depth, level) == depth > level

\* queue.shift() and the loop body up to the end of getUserFollowers
bfsDequeue ==
  /\ pc = "stalk" /\ strategy = "bfs"
  /\ node = NoNode /\ Len(queue) > 0
  /\ LET entry == Head(queue)
         cid == stats.totalProcessed + 1
         newLevel == movedToNewLevel(entry.depth, bfs.currentLevel)
         bfs1 == IF newLevel
                 THEN [bfs EXCEPT !.currentLevel = entry.depth,
                                  !.usersInCurrentLevel = bfs.usersInNextLevel,
                                  !.usersInNextLevel = 0]
                 ELSE bfs
         dequeued == Event("dequeue", entry.username, TRUE, FALSE, cid,
                           entry.depth, <<>>, 0, 0)
     IN
     /\ queue' = Tail(queue)
     /\ stats' = [stats EXCEPT !.totalProcessed = cid,
                               !.maxDepthReached = Max(@, entry.depth),
                               !.levelsProcessed = IF newLevel THEN @ + 1 ELSE @]
     /\ IF depthLimitReached(maxDepth, entry.depth)
        THEN /\ bfs' = bfs1
             /\ trace' = Append(trace, dequeued)
             /\ UNCHANGED <<processedUsers, graph, node>>
        ELSE IF isProcessed(processedUsers, entry.username)
        THEN /\ bfs' = [bfs1 EXCEPT !.usersInCurrentLevel = @ - 1]
             /\ trace' = Append(trace, dequeued)
             /\ UNCHANGED <<processedUsers, graph, node>>
        ELSE \E list \in serverLists(entry.username), failAt \in failPages :
               LET got == getUserFollowers(list, maxFollowsPerUser, failAt) IN
               /\ bfs' = bfs1
               /\ processedUsers' = processedUsers \cup {entry.username}
               /\ graph' = (entry.username :> list) @@ graph
               /\ node' = [username |-> entry.username, depth |-> entry.depth,
                           cid |-> cid, followers |-> got.followers, i |-> 1,
                           levelFollowed |-> 0, levelSkipped |-> 0]
               /\ trace' = trace
                    \o <<dequeued,
                         FetchEvent(entry.username, got, cid, entry.depth, <<>>)>>
                    \o fetchSleeps(got)
  /\ UNCHANGED <<pc, exitCode, configVars, fetchVars, fieldVars, followedInSession,
                 remote, own, followingSet, runVars, stalkResult, stack>>

\* if (this.processedUsers.has(follower)): bfsStalk skips a follower that it
\* has visited
skipsVisitedMutant(follower) == FALSE
skipsVisited(follower) == isProcessed(processedUsers, follower)

\* one iteration of the for loop over followers
bfsLoop ==
  /\ pc = "stalk" /\ strategy = "bfs"
  /\ node # NoNode /\ node.i <= Len(node.followers)
  /\ LET follower == node.followers[node.i]
         skip == [node EXCEPT !.i = @ + 1, !.levelSkipped = @ + 1]
     IN
     IF isSelf(follower)
     THEN /\ node' = [node EXCEPT !.i = @ + 1]
          /\ UNCHANGED <<followedInSession, remote, followingSet, stats, bfs,
                         queue, trace>>
     ELSE IF alreadyFollowing(follower) \/ skipsVisited(follower)
     THEN /\ node' = skip
          /\ bfs' = [bfs EXCEPT !.totalSkipped = @ + 1]
          /\ UNCHANGED <<followedInSession, remote, followingSet, stats, queue,
                         trace>>
     ELSE \E success \in outcomes(isDryRun) :
            /\ followedInSession' = followedInSessionAfter(follower, success)
            /\ remote' = remoteAfterFollow(follower, success)
            /\ IF expands(success)
               THEN /\ node' = [node EXCEPT !.i = @ + 1, !.levelFollowed = @ + 1]
                    /\ stats' = [stats EXCEPT !.totalFollowed = @ + 1]
                    /\ followingSet' = addFollowing(followingSet, follower)
                    /\ IF withinDepth(maxDepth, node.depth)
                       THEN /\ queue' = enqueue(queue,
                                 [username |-> follower,
                                  depth |-> childDepth(node.depth),
                                  parent |-> node.username])
                            /\ bfs' = [bfs EXCEPT !.totalFollowed = @ + 1,
                                                  !.usersInNextLevel = @ + 1]
                       ELSE /\ bfs' = [bfs EXCEPT !.totalFollowed = @ + 1]
                            /\ UNCHANGED queue
                    /\ trace' = trace
                         \o <<Event("follow", follower, success, sendsRequest(isDryRun),
                                    node.cid, node.depth, <<>>, 0, 0),
                              Sleep(1500)>>
               ELSE /\ node' = skip
                    /\ bfs' = [bfs EXCEPT !.totalSkipped = @ + 1]
                    /\ trace' = Append(trace,
                         Event("follow", follower, FALSE, sendsRequest(isDryRun),
                               node.cid, node.depth, <<>>, 0, 0))
                    /\ UNCHANGED <<stats, followingSet, queue>>
  /\ UNCHANGED <<pc, exitCode, configVars, fetchVars, fieldVars, processedUsers, graph,
                 own, runVars, stalkResult, stack>>

\* the end of the for loop: the node is complete
bfsNodeDone ==
  /\ pc = "stalk" /\ strategy = "bfs"
  /\ node # NoNode /\ node.i > Len(node.followers)
  /\ node' = NoNode
  /\ bfs' = [bfs EXCEPT !.usersInCurrentLevel = @ - 1]
  /\ UNCHANGED <<pc, exitCode, configVars, fetchVars, fieldVars, processedUsers,
                 followedInSession, stats, remote, graph, own, followingSet,
                 runVars, stalkResult, stack, queue, trace>>

\* the queue is empty: the final level and the return
bfsDone ==
  /\ pc = "stalk" /\ strategy = "bfs"
  /\ node = NoNode /\ Len(queue) = 0
  /\ stats' = IF bfs.currentLevel >= 0
              THEN [stats EXCEPT !.levelsProcessed = @ + 1] ELSE stats
  /\ stalkResult' = [followed |-> bfs.totalFollowed, skipped |-> bfs.totalSkipped]
  /\ pc' = "report"
  /\ UNCHANGED <<exitCode, configVars, fetchVars, fieldVars, processedUsers,
                 followedInSession, remote, graph, own, followingSet, runVars,
                 stack, queue, node, bfs, trace>>

(***************************************************************************)
(* The traversal alone: from the start of the traversal phase of run, on   *)
(* every follower graph over Users, for every set of accounts followed     *)
(* when the traversal starts.                                              *)
(***************************************************************************)
\* the seeds of --ambitious
Seeds == {"root", "me"}
\* the values of maxDepth / maxFollowsPerUser after the constructor
DepthValues == (1..MaxDepthArg) \cup {Infinity}
FollowsValues == (1..MaxFollowsArg) \cup {Infinity}

\* the accounts run follows (and is followed by) when the traversal starts
InitiallyFollowed == {{}, {"y"}}

\* the accounts of a set as a list, in a fixed order
RECURSIVE ListOf(_)
ListOf(S) ==
  IF S = {} THEN <<>>
  ELSE LET e == CHOOSE e \in S : TRUE IN <<e>> \o ListOf(S \ {e})

\* the flag of a bounded / unbounded value
ArgOf(v) == IF v = Infinity THEN NoArg ELSE NumArg(v)

NoCall == [list |-> <<>>, limit |-> 0, failAt |-> 0]
NotReturned == [followers |-> <<>>, requests |-> <<>>, state |-> "none"]

\* no earlier run
NoRun == [ran |-> FALSE, toFollow |-> <<>>, toUnfollow |-> <<>>, followed |-> {}]

NotStarted ==
  /\ exitCode = -1
  /\ previous = NoRun
  /\ processedUsers = {}
  /\ followedInSession = {}
  /\ stats = ZeroStats
  /\ i = 1
  /\ counts = ZeroCounts
  /\ stalkResult = ZeroResult
  /\ stack = <<>>
  /\ queue = <<>>
  /\ node = NoNode
  /\ bfs = ZeroBfs
  /\ trace = <<>>
  /\ fetchReturned = NotReturned

\* run has fetched its own lists: every account it follows follows back
TraversalReady ==
  /\ NotStarted
  /\ pc = "stalkStart"
  /\ fetchCall = NoCall
  /\ token = TRUE
  /\ strategy \in {"dfs", "bfs"}
  /\ username = Self
  /\ isDryRun \in BOOLEAN
  /\ isAmbitious = TRUE
  /\ targetUser \in Seeds
  /\ maxDepth \in DepthValues
  /\ maxFollowsPerUser \in FollowsValues
  /\ skipFollowBack = FALSE
  /\ skipUnfollow = FALSE
  /\ argv = [dryRun |-> isDryRun, ambitious |-> TRUE, target |-> targetUser,
             maxDepth |-> ArgOf(maxDepth), maxFollows |-> ArgOf(maxFollowsPerUser),
             skipFollowBack |-> FALSE, skipUnfollow |-> FALSE]
  /\ followingSet \in InitiallyFollowed
  /\ following = ListOf(followingSet)
  /\ followers = following
  /\ remote = [following |-> following, followers |-> followers]
  /\ own = [following |-> [page |-> 2, list |-> following, done |-> TRUE,
                           pending |-> FALSE],
            followers |-> [page |-> 2, list |-> followers, done |-> TRUE,
                           pending |-> FALSE]]
  /\ toFollow = <<>>
  /\ toUnfollow = <<>>

InitStalk ==
  /\ TraversalReady
  /\ graph = <<>>
  /\ failPages = FailPages

NextStalk ==
  \/ stalkStart
  \/ dfsEnter
  \/ dfsLoop
  \/ dfsDone
  \/ bfsDequeue
  \/ bfsLoop
  \/ bfsNodeDone
  \/ bfsDone
  \/ report

SpecStalk == InitStalk /\ [][NextStalk]_vars

\* The traversal made twice from the same state, over the same follower
\* graph, first by the dfsStalk variant and then by the bfsStalk variant,
\* in dry-run mode, where every follow call returns true, and with no page
\* request rejected.
followedBy(tr) == {tr[k].user : k \in {c \in 1..Len(tr) : tr[c].op = "follow" /\ tr[c].ok}}

restalk ==
  /\ pc = "done" /\ exitCode = 0
  /\ strategy = "dfs" /\ ~previous.ran
  /\ previous' = [NoRun EXCEPT !.ran = TRUE, !.followed = followedBy(trace)]
  /\ strategy' = "bfs"
  /\ pc' = "stalkStart"
  /\ exitCode' = -1
  /\ processedUsers' = {}
  /\ followedInSession' = {}
  /\ stats' = ZeroStats
  /\ followingSet' = Range(following)
  /\ stalkResult' = ZeroResult
  /\ stack' = <<>>
  /\ queue' = <<>>
  /\ node' = NoNode
  /\ bfs' = ZeroBfs
  /\ trace' = <<>>
  /\ UNCHANGED <<token, argv, failPages, fieldVars, remote, graph, own, runVars,
                 fetchVars>>

InitBoth ==
  /\ TraversalReady
  /\ isDryRun
  /\ strategy = "dfs"
  /\ graph = <<>>
  /\ failPages = {0}

NextBoth == NextStalk \/ restalk
SpecBoth == InitBoth /\ [][NextBoth]_vars

\* The traversal without any limit: --max-depth and --max-follows absent.
\* Every awaited call returns, so the traversal always takes its next step.
InitCycle ==
  /\ InitStalk
  /\ maxDepth = Infinity
  /\ maxFollowsPerUser = Infinity

SpecCycle == InitCycle /\ [][NextStalk]_vars /\ WF_vars(NextStalk)

\* The traversal on follower lists longer than a page, the remote side
\* rejecting the request of any one page up to the page after the last one
\* a bounded traversal rejects.
\*   root <- x, me, y;  x <- y, root, me;  y <- x;  me <- root, x, y
PagedGraphs ==
  { [u \in Users |-> CASE u = "root" -> <<"x", "me", "y">>
                       [] u = "x" -> <<"y", "root", "me">>
                       [] u = "y" -> <<"x">>
                       [] OTHER -> <<"root", "x", "y">>] }

InitPaged ==
  /\ TraversalReady
  /\ graph \in PagedGraphs
  /\ failPages = 0..(MaxFailPage + 1)

SpecPaged == InitPaged /\ [][NextStalk]_vars

(***************************************************************************)
(* The whole run: main, init, the own lists, the two batches, the          *)
(* traversal, the report.                                                  *)
(***************************************************************************)
\* the own lists the remote side can hold
OwnLists == DupFreeSeqs({"x", "y"}, MaxOwn)

\* the follower graphs of a whole run:
\*   root <- x, y;  x <- y                       (the scenario of the spec)
\*   root <- x, me; x <- root, y; y <- x; me <- x  (cycles, the own account)
RunGraphs ==
  { [u \in Users |-> CASE u = "root" -> <<"x", "y">>
                       [] u = "x" -> <<"y">>
                       [] OTHER -> <<>>],
    [u \in Users |-> CASE u = "root" -> <<"x", "me">>
                       [] u = "x" -> <<"root", "y">>
                       [] u = "y" -> <<"x">>
                       [] OTHER -> <<"x">>] }

\* the numeric flags: absent, not a number, 0, or a positive value
DepthArgs == {NoArg, TextArg, NumArg(0), NumArg(MaxDepthArg)}
FollowsArgs == {NoArg, NumArg(0), NumArg(MaxFollowsArg)}

\* the command lines: one with a bad numeric flag has nothing else set
Argvs ==
  { a \in [dryRun : BOOLEAN, ambitious : BOOLEAN, target : {Null, "root"},
           maxDepth : DepthArgs, maxFollows : FollowsArgs,
           skipFollowBack : BOOLEAN, skipUnfollow : BOOLEAN] :
      /\ ~a.ambitious =>
           /\ a.target = Null
           /\ a.maxDepth \in {NoArg, TextArg, NumArg(0)}
           /\ a.maxFollows \in {NoArg, NumArg(0)}
      /\ (ParseThrows(a.maxDepth) \/ ParseThrows(a.maxFollows)) =>
           /\ ~a.skipFollowBack /\ ~a.skipUnfollow
           /\ ~(ParseThrows(a.maxDepth) /\ ParseThrows(a.maxFollows))
      /\ a.ambitious /\ a.maxFollows = NumArg(MaxFollowsArg) =>
           a.maxDepth = NoArg /\ ~a.skipFollowBack /\ ~a.skipUnfollow
      /\ a.ambitious /\ a.target = Null =>
           a.maxDepth = NoArg /\ a.maxFollows = NoArg }

Init ==
  /\ NotStarted
  /\ pc = "main"
  /\ fetchCall = NoCall
  /\ failPages = FailPages
  /\ token \in BOOLEAN
  /\ argv \in Argvs
  /\ ~token => argv = [dryRun |-> FALSE, ambitious |-> FALSE, target |-> Null,
                        maxDepth |-> NoArg, maxFollows |-> NoArg,
                        skipFollowBack |-> FALSE, skipUnfollow |-> FALSE]
  /\ strategy \in {"dfs", "bfs"}
  /\ ~(token /\ argv.ambitious) => strategy = "dfs"
  /\ username = Null
  /\ isDryRun = FALSE
  /\ isAmbitious = FALSE
  /\ targetUser = Null
  /\ maxDepth = Infinity
  /\ maxFollowsPerUser = Infinity
  /\ skipFollowBack = FALSE
  /\ skipUnfollow = FALSE
  /\ remote \in [following : OwnLists, followers : OwnLists]
  /\ graph \in RunGraphs
  /\ own = [following |-> [page |-> 1, list |-> <<>>, done |-> FALSE,
                           pending |-> FALSE],
            followers |-> [page |-> 1, list |-> <<>>, done |-> FALSE,
                           pending |-> FALSE]]
  /\ following = <<>>
  /\ followers = <<>>
  /\ followingSet = {}
  /\ toFollow = <<>>
  /\ toUnfollow = <<>>

Next ==
  \/ main
  \/ init
  \/ getAllFollowing
  \/ getAllFollowers
  \/ getAllSend("following")
  \/ getAllSend("followers")
  \/ analyze
  \/ followBack
  \/ followBackEnd
  \/ unfollow
  \/ unfollowEnd
  \/ stalkStart
  \/ dfsEnter
  \/ dfsLoop
  \/ dfsDone
  \/ bfsDequeue
  \/ bfsLoop
  \/ bfsNodeDone
  \/ bfsDone
  \/ report

Spec == Init /\ [][Next]_vars

(***************************************************************************)
(* The program run twice in dry-run mode over the same remote side: once   *)
(* the first process has ended after computing toFollow and toUnfollow,    *)
(* main() is started again with the same environment and command line     *)
(* (src/unnamed/part_001:680-724).                                         *)
(***************************************************************************)
rerun ==
  /\ pc = "done" /\ exitCode = 0 /\ bothFetched
  /\ ~previous.ran
  /\ previous' = [ran |-> TRUE, toFollow |-> toFollow, toUnfollow |-> toUnfollow,
                  followed |-> {}]
  /\ pc' = "main"
  /\ exitCode' = -1
  /\ username' = Null
  /\ isDryRun' = FALSE
  /\ isAmbitious' = FALSE
  /\ targetUser' = Null
  /\ maxDepth' = Infinity
  /\ maxFollowsPerUser' = Infinity
  /\ skipFollowBack' = FALSE
  /\ skipUnfollow' = FALSE
  /\ processedUsers' = {}
  /\ followedInSession' = {}
  /\ stats' = ZeroStats
  /\ own' = [following |-> [page |-> 1, list |-> <<>>, done |-> FALSE,
                            pending |-> FALSE],
             followers |-> [page |-> 1, list |-> <<>>, done |-> FALSE,
                            pending |-> FALSE]]
  /\ following' = <<>>
  /\ followers' = <<>>
  /\ followingSet' = {}
  /\ toFollow' = <<>>
  /\ toUnfollow' = <<>>
  /\ i' = 1
  /\ counts' = ZeroCounts
  /\ stalkResult' = ZeroResult
  /\ stack' = <<>>
  /\ queue' = <<>>
  /\ node' = NoNode
  /\ bfs' = ZeroBfs
  /\ trace' = <<>>
  /\ UNCHANGED <<token, argv, strategy, failPages, remote, graph, fetchVars>>

InitTwice == Init /\ token /\ argv.dryRun
NextTwice == Next \/ rerun
SpecTwice == InitTwice /\ [][NextTwice]_vars

(***************************************************************************)
(* The reconciliation diff alone: run right after Promise.all, for every   *)
(* pair of duplicate-free own lists over the accounts.                     *)
(***************************************************************************)
PlainArgv(dry) ==
  [dryRun |-> dry, ambitious |-> FALSE, target |-> Null, maxDepth |-> NoArg,
   maxFollows |-> NoArg, skipFollowBack |-> FALSE, skipUnfollow |-> FALSE]

\* the state of a plain run (no traversal, no skip flag) after init
PlainRun ==
  /\ NotStarted
  /\ failPages = FailPages
  /\ token = TRUE
  /\ strategy = "dfs"
  /\ username = Self
  /\ isDryRun \in BOOLEAN
  /\ argv = PlainArgv(isDryRun)
  /\ isAmbitious = FALSE
  /\ targetUser = Null
  /\ maxDepth = Infinity
  /\ maxFollowsPerUser = Infinity
  /\ skipFollowBack = FALSE
  /\ skipUnfollow = FALSE
  /\ graph = <<>>
  /\ following = <<>>
  /\ followers = <<>>
  /\ followingSet = {}
  /\ toFollow = <<>>
  /\ toUnfollow = <<>>

InitDiff ==
  /\ PlainRun
  /\ pc = "fetchOwn"
  /\ fetchCall = NoCall
  /\ remote \in [following : DupFreeSeqs(Others, MaxDiff),
                 followers : DupFreeSeqs(Others, MaxDiff)]
  /\ own = [following |-> [page |-> 1, list |-> remote.following, done |-> TRUE,
                           pending |-> FALSE],
            followers |-> [page |-> 1, list |-> remote.followers, done |-> TRUE,
                           pending |-> FALSE]]

NextDiff == analyze

SpecDiff == InitDiff /\ [][NextDiff]_vars

(***************************************************************************)
(* getUserFollowers alone: one call, for every length of the account's     *)
(* follower list, every cap and every page whose request is rejected.      *)
(***************************************************************************)
\* a follower list of n entries: the entries are named by their position
ListOfLength(n) == [k \in 1..n |-> k]
\* the caps: bounded ones and Infinity
Caps == (1..MaxList) \cup {Infinity}

InitFetch ==
  /\ PlainRun
  /\ pc = "getUserFollowers"
  /\ remote = [following |-> <<>>, followers |-> <<>>]
  /\ own = [following |-> [page |-> 1, list |-> <<>>, done |-> TRUE,
                           pending |-> FALSE],
            followers |-> [page |-> 1, list |-> <<>>, done |-> TRUE,
                           pending |-> FALSE]]
  /\ fetchCall \in {[list |-> ListOfLength(n), limit |-> limit, failAt |-> failAt] :
                      n \in 0..MaxList, limit \in Caps, failAt \in 0..MaxList}

callGetUserFollowers ==
  /\ pc = "getUserFollowers"
  /\ fetchReturned.state = "none"
  /\ LET got == getUserFollowers(fetchCall.list, fetchCall.limit, fetchCall.failAt) IN
     fetchReturned' = [followers |-> got.followers, requests |-> got.requests,
                       state |-> "returned"]
  /\ UNCHANGED <<pc, exitCode, configVars, fetchCall, fieldVars, processedUsers,
                 followedInSession, stats, remote, graph, own, followingSet,
                 runVars, stalkResult, stalkVars, trace>>

NextFetch == callGetUserFollowers

SpecFetch == InitFetch /\ [][NextFetch]_vars

(***************************************************************************)
(* Properties.                                                             *)
(***************************************************************************)
\* the positions of the trace that hold a call of the given kind
Calls(op) == {k \in 1..Len(trace) : trace[k].op = op}
\* sub holds entries of s only, in the order s has them
OrderKept(sub, s) ==
  /\ Range(sub) \subseteq Range(s)
  /\ \A a, b \in 1..Len(sub) : a < b => IndexOf(s, sub[a]) < IndexOf(s, sub[b])
\* run is past the computation of toFollow / toUnfollow
Analyzed == pc \in {"followBack", "done"} /\ own.following.done /\ own.followers.done

\* C1: for duplicate-free own lists, toFollow is the subsequence of
\* followers whose entries are not in following, toUnfollow the subsequence
\* of following whose entries are not in followers, each in the order of the
\* list it comes from, and no account is in both.
C1_ReconciliationDiff ==
  Analyzed =>
    /\ following = remote.following /\ followers = remote.followers
    /\ IsDupFree(toFollow) /\ IsDupFree(toUnfollow)
    /\ Range(toFollow) = Range(followers) \ Range(following)
    /\ Range(toUnfollow) = Range(following) \ Range(followers)
    /\ OrderKept(toFollow, followers)
    /\ OrderKept(toUnfollow, following)
    /\ Range(toFollow) \cap Range(toUnfollow) = {}

\* the lists overlap, and each has an entry the other lacks
C1_Witness ==
  /\ Analyzed
  /\ Range(following) \cap Range(followers) # {}
  /\ toFollow # <<>>
  /\ toUnfollow # <<>>

\* C2: in one traversal the followers of an account are fetched at most
\* once, and only for accounts that are in processedUsers.
C2_FetchedAtMostOnce ==
  /\ \A a, b \in Calls("fetch") : trace[a].user = trace[b].user => a = b
  /\ \A a \in Calls("fetch") : trace[a].user \in processedUsers

\* a depth-first traversal without depth limit came back to an account it
\* had processed, and did not fetch its followers again
C2_Witness ==
  /\ pc = "report"
  /\ strategy = "dfs" /\ maxDepth = Infinity
  /\ stats.totalProcessed > Cardinality(processedUsers)
  /\ Cardinality(Calls("fetch")) = Cardinality(processedUsers)

\* C3: with a bounded maxDepth every account whose followers are fetched is
\* a traversal node of depth at most maxDepth - 1.
C3_DepthBound ==
  maxDepth # Infinity => \A a \in Calls("fetch") : trace[a].depth <= maxDepth - 1

\* a depth-first traversal fetched at depth maxDepth - 1 and was called at
\* depth maxDepth, where it fetched nothing
C3_Witness ==
  /\ pc = "report"
  /\ strategy = "dfs" /\ maxDepth = 2
  /\ stats.maxDepthReached = maxDepth
  /\ \E a \in Calls("fetch") : trace[a].depth = maxDepth - 1

\* a getUserFollowers call on its own has returned
Returned == fetchReturned.state = "returned"

\* C4: with a bounded cap L a getUserFollowers call returns at most L
\* accounts, whatever the length of the account's follower list and
\* whichever page request is rejected (every page response holding at most
\* per_page entries).
C4_FetchCap ==
  Returned /\ fetchCall.limit # Infinity =>
    /\ Len(fetchReturned.followers) <= fetchCall.limit
    /\ \A r \in Range(fetchReturned.requests) : r.got <= r.per_page

\* the cap cut a longer list after more than one page, and a later request
\* would have been rejected
C4_Witness ==
  /\ Returned
  /\ fetchCall.limit # Infinity
  /\ fetchCall.limit < Len(fetchCall.list)
  /\ Len(fetchReturned.followers) = fetchCall.limit
  /\ Len(fetchReturned.requests) > 1
  /\ fetchCall.failAt > Len(fetchReturned.requests)

\* C5: a getUserFollowers call with cap c on a list of n entries, no request
\* being rejected, returns the first min(c, n) entries of the list in list
\* order, each once.
C5_FirstEntriesOnce ==
  Returned /\ fetchCall.failAt = 0 =>
    fetchReturned.followers =
      SubSeq(fetchCall.list, 1, Min(fetchCall.limit, Len(fetchCall.list)))

\* C6: in bfsStalk the depths of the successively dequeued nodes never
\* decrease, and every fetch and follow call of a node is made before the
\* next node is dequeued.
C6_LevelOrder ==
  /\ \A a, b \in Calls("dequeue") : a < b => trace[a].depth <= trace[b].depth
  /\ \A a \in Calls("dequeue") : \A b \in 1..Len(trace) :
       (trace[b].op \in {"fetch", "follow"} /\ trace[b].cid = trace[a].cid)
         => /\ a < b
            /\ \A c \in Calls("dequeue") : ~(a < c /\ c < b)

\* two nodes of depth 1 were dequeued and processed, then one of depth 2
C6_Witness ==
  /\ strategy = "bfs"
  /\ pc = "report"
  /\ \E a, b, c \in Calls("dequeue") :
       /\ a < b /\ b < c
       /\ trace[a].depth = 1 /\ trace[b].depth = 1 /\ trace[c].depth = 2
       /\ \E f \in Calls("follow") : trace[f].cid = trace[a].cid
       /\ \E f \in Calls("fetch") : trace[f].cid = trace[c].cid

\* trace[c] belongs to the dfsStalk call that the follow trace[a] led to
InCallOf(a, c) == trace[a].child # 0 /\ trace[a].child \in Range(trace[c].calls)

\* C7: in dfsStalk, after a follow of follower F of node N has succeeded,
\* every fetch and follow call of the recursive processing of F is made
\* before N's follow attempt on a later follower.
C7_PathExhaustion ==
  \A a, b \in Calls("follow") :
    (a < b /\ trace[a].ok /\ trace[b].cid = trace[a].cid /\ trace[a].child # 0)
      => \A c \in 1..Len(trace) : InCallOf(a, c) => (a < c /\ c < b)

\* the processing of F fetched F's followers and followed one of them, and
\* then N attempted to follow its next follower
C7_Witness ==
  /\ strategy = "dfs"
  /\ \E a, b \in Calls("follow") :
       /\ a < b /\ trace[a].ok /\ trace[b].cid = trace[a].cid
       /\ \E c \in Calls("fetch") : InCallOf(a, c) /\ c < b
       /\ \E c \in Calls("follow") : InCallOf(a, c) /\ c < b

\* the accounts reached from the accounts of S along follower edges
RECURSIVE FollowersClosure(_)
FollowersClosure(S) ==
  LET T == S \cup UNION {Range(graph[u]) : u \in S \cap DOMAIN graph} IN
  IF T = S THEN S ELSE FollowersClosure(T)
\* the account is on a cycle of the follower graph
OnCycle(u) == u \in DOMAIN graph /\ u \in FollowersClosure(Range(graph[u]))
\* the fetch calls made for the followers of the account
FetchesOf(u) == {a \in Calls("fetch") : trace[a].user = u}

\* C8: with maxDepth and maxFollowsPerUser both unbounded, on every follower
\* graph over the accounts (cycles included) and with either strategy, the
\* traversal ends when every call returns, and the followers of an account
\* on a cycle are fetched at most once.
C8_TerminationCycleSafety ==
  /\ <>(pc = "done")
  /\ [](\A u \in Users : OnCycle(u) => Cardinality(FetchesOf(u)) <= 1)

\* the traversal has ended after it fetched the followers of two accounts
\* that follow each other, and came back to one it had processed
C8_Witness ==
  /\ pc = "done"
  /\ maxDepth = Infinity /\ maxFollowsPerUser = Infinity
  /\ stats.totalProcessed > Cardinality(processedUsers)
  /\ \E a, b \in DOMAIN graph :
       /\ a # b
       /\ a \in Range(graph[b]) /\ b \in Range(graph[a])
       /\ Cardinality(FetchesOf(a)) = 1 /\ Cardinality(FetchesOf(b)) = 1

\* the follow calls of the trace that returned true for the account
FollowedOk(u) == {a \in Calls("follow") : trace[a].user = u /\ trace[a].ok}
\* the run of the scenario: seed root with followers [x, y], x's followers
\* [y], own lists empty, every follow call returning true
ScenarioRun ==
  /\ pc = "done" /\ exitCode = 0
  /\ isDryRun /\ isAmbitious /\ targetUser = "root"
  /\ maxFollowsPerUser = Infinity
  /\ {"root", "x"} \subseteq DOMAIN graph
  /\ graph["root"] = <<"x", "y">> /\ graph["x"] = <<"y">>
  /\ following = <<>> /\ followers = <<>>
  /\ \A a \in Calls("fetch") : trace[a].ok

\* C9: in one run (follow-back, unfollow, traversal with either strategy),
\* live or dry-run, the own lists being duplicate-free, no account is the
\* target of more than one followUser call that returned true; in the
\* scenario run x and y are each followed exactly once.
C9_NoDuplicateFollows ==
  /\ \A u \in Users : Cardinality(FollowedOk(u)) <= 1
  /\ ScenarioRun =>
       Cardinality(FollowedOk("x")) = 1 /\ Cardinality(FollowedOk("y")) = 1

\* an account followed in the follow-back batch was met again by the
\* traversal, which followed another account and skipped this one
C9_Witness ==
  /\ pc = "done"
  /\ stalkResult.skipped > 0
  /\ \E a, b \in Calls("follow") :
       /\ trace[a].ok /\ trace[a].phase = "followBack"
       /\ trace[b].ok /\ trace[b].phase = "stalk"
       /\ \E u \in DOMAIN graph : trace[a].user \in Range(graph[u]) /\ u \in processedUsers

\* C10: with --dry-run no followUser / unfollowUser call of any phase sends a
\* request, each of them returns true, and the remote following list stays
\* the one that was fetched.
C10_DryRunSafety ==
  isDryRun =>
    /\ \A a \in Calls("follow") \cup Calls("unfollow") : ~trace[a].net /\ trace[a].ok
    /\ followedInSession = {}
    /\ own.following.done => remote.following = own.following.list

\* a dry run went through a follow of the follow-back batch, an unfollow and
\* a follow of the traversal
C10_Witness ==
  /\ isDryRun
  /\ pc = "done"
  /\ \E a \in Calls("follow") : trace[a].phase = "followBack"
  /\ \E a \in Calls("unfollow") : trace[a].phase = "unfollow"
  /\ \E a \in Calls("follow") : trace[a].phase = "stalk"

\* C11: in both strategies the traversal never calls followUser on the
\* authenticated account: a fetched follower equal to this.username gets no
\* follow attempt, no dfsStalk call and no queue entry.
C11_NeverFollowsSelf ==
  /\ \A a \in Calls("follow") : trace[a].user # username
  /\ \A k \in 1..Len(stack) : stack[k].depth > 0 => stack[k].username # username
  /\ \A k \in 1..Len(queue) : queue[k].depth > 0 => queue[k].username # username
  /\ \A a \in Calls("dequeue") : trace[a].depth > 0 => trace[a].user # username

\* the traversal has ended after a fetch returned a list that holds the
\* authenticated account and another account, which it followed
C11_Witness ==
  /\ pc = "report"
  /\ \E a \in Calls("fetch") :
       /\ username \in Range(trace[a].got)
       /\ \E b \in Calls("follow") : trace[b].cid = trace[a].cid /\ trace[b].ok

\* C12: for every seed of --ambitious and every follower graph,
\* processedUsers never holds the authenticated account.
C12_SelfNeverProcessed == username \notin processedUsers

\* the accounts of the calls of one kind made in one phase, in call order
Attempts(op, phase) ==
  LET made == SelectSeq(trace, LAMBDA e : e.op = op /\ e.phase = phase) IN
  [k \in 1..Len(made) |-> made[k].user]
\* the number of calls of one kind made in one phase that returned ok
Outcomes(op, phase, ok) ==
  Len(SelectSeq(trace, LAMBDA e : e.op = op /\ e.phase = phase /\ e.ok = ok))
PastFollowBack == pc \in {"unfollow", "stalkStart", "stalk", "report", "done"}
PastUnfollow == pc \in {"stalkStart", "stalk", "report", "done"}

\* C13: a failed call never ends a batch. While a reconciliation batch runs
\* the attempts made are the first i - 1 accounts of its list, in list
\* order; once it is over every account of toFollow (toUnfollow) has had
\* exactly one follow (unfollow) attempt, and the success and failure
\* counters count them all.
C13_BatchNeverAborts ==
  /\ (pc = "followBack" /\ followBackRuns) =>
       Attempts("follow", "followBack") = SubSeq(toFollow, 1, i - 1)
  /\ (PastFollowBack /\ followBackRuns) =>
       /\ Attempts("follow", "followBack") = toFollow
       /\ counts.followSuccessCount + counts.followFailCount = Len(toFollow)
  /\ (pc = "unfollow" /\ unfollowRuns) =>
       Attempts("unfollow", "unfollow") = SubSeq(toUnfollow, 1, i - 1)
  /\ (PastUnfollow /\ unfollowRuns) =>
       /\ Attempts("unfollow", "unfollow") = toUnfollow
       /\ counts.unfollowSuccessCount + counts.unfollowFailCount = Len(toUnfollow)
  /\ counts.followSuccessCount = Outcomes("follow", "followBack", TRUE)
  /\ counts.followFailCount = Outcomes("follow", "followBack", FALSE)
  /\ counts.unfollowSuccessCount = Outcomes("unfollow", "unfollow", TRUE)
  /\ counts.unfollowFailCount = Outcomes("unfollow", "unfollow", FALSE)

\* the run has ended after a follow-back batch of two accounts whose first
\* follow call failed and whose second succeeded
C13_Witness ==
  /\ pc = "done"
  /\ Len(toFollow) = 2
  /\ counts.followSuccessCount = 1 /\ counts.followFailCount = 1
  /\ \E a, b \in Calls("follow") :
       /\ a < b
       /\ trace[a].phase = "followBack" /\ ~trace[a].ok
       /\ trace[b].phase = "followBack" /\ trace[b].ok

\* the run hits a fatal startup error: no token, an invalid --max-depth or
\* --max-follows value, --ambitious without a target, or (the process having
\* ended without this.username set) a rejected getAuthenticated
FatalStartup ==
  \/ ~token
  \/ ParseThrows(argv.maxDepth) \/ ParseThrows(argv.maxFollows)
  \/ argv.ambitious /\ argv.target = Null
  \/ pc = "done" /\ username = Null

\* C14: in a run that hits a fatal startup error no follow or unfollow call
\* is ever made (and no page of the own lists is requested).
C14_FatalStartupNoCalls ==
  FatalStartup =>
    Calls("follow") \cup Calls("unfollow") \cup Calls("page") = {}

\* an authenticated run with --ambitious and no target has ended; the
\* account has a follower it does not follow
C14_Witness ==
  /\ pc = "done"
  /\ token /\ username = Self
  /\ argv.ambitious /\ argv.target = Null
  /\ toFollowOf(remote.following, remote.followers) # <<>>

\* C15: an invalid --max-depth or --max-follows value ends the process with
\* a non-zero exit code.
C15_InvalidFlagExitsNonZero ==
  (pc = "done" /\ token
     /\ (ParseThrows(argv.maxDepth) \/ ParseThrows(argv.maxFollows)))
    => exitCode # 0

\* a page request of an own list was rejected
OwnPageFailed == \E a \in Calls("page") : ~trace[a].ok

\* C16: once a page request of the own following or followers list is
\* rejected the process has ended with exit code 1, whether the other list is
\* still being fetched or is complete, and no follow or unfollow call is
\* made.
C16_OwnFetchFailureAborts ==
  OwnPageFailed =>
    /\ pc = "done" /\ exitCode = 1
    /\ Calls("follow") \cup Calls("unfollow") = {}
    /\ trace[Len(trace)].op = "page" /\ ~trace[Len(trace)].ok

\* the second page request of one own list was rejected while a request of
\* the other list was in flight; the account has a follower it does not
\* follow
C16_Witness ==
  /\ pc = "done"
  /\ \E a \in Calls("page") :
       ~trace[a].ok /\ trace[a].page = 2 /\ trace[a].inflight = 1
  /\ toFollowOf(remote.following, remote.followers) # <<>>

\* the calls of the trace that send a request other than an own-list page
SequentialCalls ==
  {a \in 1..Len(trace) : trace[a].op \in {"follow", "unfollow", "fetch"}}

\* C18: the two own-list fetches run interleaved (a page request of one is
\* made while a request of the other is in flight, never more than one of
\* each); no follow or unfollow call is made before both have completed;
\* and from then on no call is made while another request is in flight.
C18_OneCallInFlight ==
  /\ \A a \in Calls("page") : trace[a].inflight \in {0, 1}
  /\ \A a \in SequentialCalls : trace[a].inflight = 0
  /\ SequentialCalls # {} => own.following.done /\ own.followers.done
  /\ \A a \in SequentialCalls : \A b \in Calls("page") : b < a
  /\ pc \in {"followBack", "unfollow", "stalkStart", "stalk", "report"} =>
       ~own.following.pending /\ ~own.followers.pending

\* a page of the following list, then one of the followers list, then the
\* last of the following list were answered, each while a request of the
\* other list was in flight; later an unfollow and a follow call were made
C18_Witness ==
  /\ pc = "done"
  /\ \E a, b, c \in Calls("page") :
       /\ a < b /\ b < c
       /\ trace[a].user = "following" /\ trace[a].inflight = 1
       /\ trace[b].user = "followers" /\ trace[b].inflight = 1
       /\ trace[c].user = "following"
  /\ Calls("follow") # {} /\ Calls("unfollow") # {}

\* run has computed toFollow and toUnfollow
DiffComputed == pc \notin {"main", "init", "fetchOwn"} /\ bothFetched

\* C19: when toFollow and toUnfollow are both empty and no traversal is
\* requested, the run has ended with exit code 0 without any follow or
\* unfollow call and without the 3-second countdown, in live mode as in
\* dry-run mode.
C19_NothingToDo ==
  (DiffComputed /\ toFollow = <<>> /\ toUnfollow = <<>> /\ ~isAmbitious) =>
    /\ pc = "done" /\ exitCode = 0
    /\ Calls("follow") \cup Calls("unfollow") = {}
    /\ \A a \in Calls("sleep") : trace[a].ms # 3000

\* a live run without traversal has ended: the account follows the accounts
\* that follow it, two of them
C19_Witness ==
  /\ pc = "done" /\ exitCode = 0
  /\ DiffComputed
  /\ ~isDryRun /\ ~isAmbitious /\ ~skipFollowBack /\ ~skipUnfollow
  /\ Len(following) = 2 /\ Len(followers) = 2
  /\ toFollow = <<>> /\ toUnfollow = <<>>

\* C20: the skip flags switch their batches off independently. With
\* --skip-follow-back no follow call is made in the follow-back batch; with
\* --skip-unfollow no unfollow call is made at all; a batch whose flag is
\* not set makes exactly the calls of its list, whatever the other flag;
\* with both flags and no traversal no follow or unfollow call is made.
C20_SkipFlagsIndependent ==
  /\ skipFollowBack => Attempts("follow", "followBack") = <<>>
  /\ skipUnfollow => Calls("unfollow") = {}
  /\ (DiffComputed /\ PastFollowBack /\ ~skipFollowBack) =>
       Attempts("follow", "followBack") = toFollow
  /\ (DiffComputed /\ PastUnfollow /\ ~skipUnfollow) =>
       Attempts("unfollow", "unfollow") = toUnfollow
  /\ (skipFollowBack /\ skipUnfollow /\ ~isAmbitious) =>
       Calls("follow") \cup Calls("unfollow") = {}

\* a run with --skip-follow-back alone has ended: it had an account to
\* follow back, which it did not follow, and unfollowed the account of
\* toUnfollow
C20_Witness ==
  /\ pc = "done"
  /\ skipFollowBack /\ ~skipUnfollow
  /\ toFollow # <<>> /\ toUnfollow # <<>>
  /\ Attempts("follow", "followBack") = <<>>
  /\ Attempts("unfollow", "unfollow") = toUnfollow

\* the entries of the pages before page p of a list, as getUserFollowers
\* asks for them under the cap
EarlierPages(list, limit, p) ==
  SubSeq(list, 1, Min((p - 1) * Min(PER_PAGE, effectiveLimitOf(limit)), Len(list)))
\* the traversal has dealt with entry f of the list that fetch a returned:
\* it is the own account, or followed, or processed, or the node of the
\* fetch made a follow call for it
Handled(a, f) ==
  \/ isSelf(f)
  \/ alreadyFollowing(f)
  \/ isProcessed(processedUsers, f)
  \/ \E b \in Calls("follow") : trace[b].cid = trace[a].cid /\ trace[b].user = f

\* C17: when a page request for the followers of a third-party account is
\* rejected, getUserFollowers returns the entries of the earlier pages
\* (none when it is the first page), and the traversal goes on: when it
\* ends, every entry of every returned list has been dealt with, every call
\* dfsStalk made for a followed account has run, and every account bfsStalk
\* enqueued has been dequeued.
C17_FetchFailureRecoverable ==
  /\ \A a \in Calls("fetch") :
       trace[a].page > 0 =>
         /\ ~trace[a].ok
         /\ trace[a].got =
              EarlierPages(graph[trace[a].user], maxFollowsPerUser, trace[a].page)
  /\ pc = "report" =>
       /\ \A a \in Calls("fetch") : \A f \in Range(trace[a].got) : Handled(a, f)
       /\ \A b \in Calls("follow") :
            (strategy = "dfs" /\ trace[b].ok) =>
              trace[b].child > 0 /\ trace[b].child <= stats.totalProcessed
       /\ \A b \in Calls("follow") :
            (strategy = "bfs" /\ trace[b].ok /\ withinDepth(maxDepth, trace[b].depth)) =>
              \E c \in Calls("dequeue") :
                /\ b < c
                /\ trace[c].user = trace[b].user
                /\ trace[c].depth = trace[b].depth + 1

\* the request of the second page of a list of three was rejected: the fetch
\* returned the two entries of the first page, and the traversal went on to
\* fetch the followers of another account and to follow one of them
C17_Witness ==
  /\ pc = "report"
  /\ \E a, b \in Calls("fetch") :
       /\ a < b
       /\ trace[a].page = 2 /\ Len(trace[a].got) = 2
       /\ Len(graph[trace[a].user]) = 3
       /\ \E c \in Calls("follow") : b < c /\ trace[c].cid = trace[b].cid

\* a live run of the reconciliation alone that got past the early return and
\* ended with "Mutual follow management complete"
CompleteLiveRun ==
  /\ pc = "done" /\ exitCode = 0 /\ DiffComputed
  /\ ~isDryRun /\ ~isAmbitious /\ ~skipFollowBack /\ ~skipUnfollow
  /\ ~returnsEarly(toFollow, toUnfollow)

\* C21: after a completed live run of the reconciliation (no skip flag, no
\* traversal) that reports "complete", the accounts the user follows are
\* exactly the user's followers.
C21_FollowingMirrorsFollowers ==
  CompleteLiveRun => Range(remote.following) = Range(remote.followers)

\* C22: two consecutive dry-run runs over the same remote lists compute the
\* same toFollow and the same toUnfollow: once the second run has computed
\* them they equal those of the first run.
C22_DryRunIdempotent ==
  (previous.ran /\ DiffComputed) =>
    /\ toFollow = previous.toFollow
    /\ toUnfollow = previous.toUnfollow

\* the second dry-run run is over; both runs had accounts to follow back and
\* to unfollow, and the second one went through both batches
C22_Witness ==
  /\ previous.ran /\ pc = "done" /\ exitCode = 0
  /\ Len(previous.toFollow) > 0 /\ Len(previous.toUnfollow) > 0
  /\ Attempts("follow", "followBack") = toFollow
  /\ Attempts("unfollow", "unfollow") = toUnfollow

\* the inter-action delays (1000 ms) made in one phase of run
Delays(phase) ==
  Len(SelectSeq(trace, LAMBDA e : e.op = "sleep" /\ e.ms = 1000 /\ e.phase = phase))

\* C23: the inter-action delay of a reconciliation batch comes after every
\* action but the last: each delay stands between two consecutive actions of
\* one batch, a live batch of k accounts has k - 1 delays once it is over,
\* and a dry-run has none.
C23_BatchDelays ==
  /\ \A s \in Calls("sleep") :
       trace[s].ms = 1000 =>
         /\ ~isDryRun
         /\ s > 1
         /\ trace[s - 1].op \in {"follow", "unfollow"}
         /\ trace[s - 1].phase = trace[s].phase
         /\ s < Len(trace) =>
              /\ trace[s + 1].op = trace[s - 1].op
              /\ trace[s + 1].phase = trace[s].phase
  /\ (PastFollowBack /\ followBackRuns /\ ~isDryRun) =>
       Delays("followBack") = Len(toFollow) - 1
  /\ (PastUnfollow /\ unfollowRuns /\ ~isDryRun) =>
       Delays("unfollow") = Len(toUnfollow) - 1

\* a live run went through a follow-back batch of two accounts of which the
\* first follow was rejected: one delay, between the two attempts
C23_Witness ==
  /\ ~isDryRun /\ PastFollowBack
  /\ followBackRuns /\ Len(toFollow) = 2
  /\ Attempts("follow", "followBack") = toFollow
  /\ Outcomes("follow", "followBack", FALSE) = 1
  /\ Delays("followBack") = 1

\* the follow / unfollow requests sent to the remote side
Requests ==
  {k \in 1..Len(trace) : trace[k].op \in {"follow", "unfollow"} /\ trace[k].net}

\* C24: in live mode a delay separates every two consecutive follow /
\* unfollow requests of a run: a sleep stands between any two of them, the
\* last follow-back and the first unfollow included, and a traversal follow
\* that comes after a failed one included.
C24_DelayBetweenRequests ==
  \A a, b \in Requests :
    a < b => \E s \in Calls("sleep") : a < s /\ s < b

\* the calls made in one phase of run
InPhase(phase) == {k \in 1..Len(trace) : trace[k].phase = phase}

\* C25: within one run every follow-back action is over before the first
\* unfollow action, and every reconciliation action is over before the
\* traversal fetches the seed's followers or makes its first follow: when an
\* unfollow is made the follow-back batch is complete, when the traversal
\* makes a call both batches are complete, and no call of an earlier phase
\* comes after a call of a later one.
C25_PhaseOrder ==
  /\ \A a \in InPhase("followBack") : \A b \in InPhase("unfollow") : a < b
  /\ \A a \in InPhase("followBack") \cup InPhase("unfollow") :
       \A b \in InPhase("stalkStart") \cup InPhase("stalk") : a < b
  /\ (InPhase("unfollow") # {} /\ followBackRuns) =>
       Attempts("follow", "followBack") = toFollow
  /\ InPhase("stalk") # {} =>
       /\ followBackRuns => Attempts("follow", "followBack") = toFollow
       /\ unfollowRuns => Attempts("unfollow", "unfollow") = toUnfollow

\* a run followed back one account, unfollowed another, then fetched the
\* seed's followers and followed one of them
C25_Witness ==
  /\ Len(Attempts("follow", "followBack")) = 1
  /\ Len(Attempts("unfollow", "unfollow")) = 1
  /\ \E a \in Calls("fetch"), b \in Calls("follow") :
       a < b /\ trace[a].depth = 0 /\ trace[b].phase = "stalk"

\* the follow / unfollow attempts of the run that failed
Failed ==
  Len(SelectSeq(trace, LAMBDA e : e.op \in {"follow", "unfollow"} /\ ~e.ok))

\* C26: every failed follow or unfollow attempt of the run, made in a batch
\* or during the traversal, is counted in a failure counter reported at the
\* end: the failure counters of the final report add up to the number of
\* failed attempts.
C26_FailuresCounted ==
  (pc \in {"report", "done"} /\ DiffComputed) =>
    Failed = counts.followFailCount + counts.unfollowFailCount

\* C27: a failed follow never leads to expansion: dfsStalk is called on a
\* follower, and a queue entry is made for it, only right after a followUser
\* call on it returned true, so every visited account other than the seed
\* was followed with success earlier in the traversal.
C27_NoExpansionAfterFailure ==
  /\ \A u \in processedUsers \ {targetUser} : FollowedOk(u) # {}
  /\ \A k \in 1..Len(stack) :
       stack[k].depth > 0 => FollowedOk(stack[k].username) # {}
  /\ \A k \in 1..Len(queue) :
       queue[k].depth > 0 => FollowedOk(queue[k].username) # {}
  /\ \A a \in Calls("follow") : ~trace[a].ok => trace[a].child = 0
  /\ \A c \in Calls("fetch") :
       (strategy = "dfs" /\ trace[c].depth > 0) =>
         /\ c > 2
         /\ trace[c - 1].op = "sleep"
         /\ trace[c - 2].op = "follow" /\ trace[c - 2].ok
         /\ trace[c - 2].user = trace[c].user
         /\ trace[c - 2].child = trace[c].cid
  /\ \A c \in Calls("dequeue") :
       trace[c].depth > 0 =>
         \E a \in FollowedOk(trace[c].user) :
           a < c /\ trace[a].depth = trace[c].depth - 1

\* a traversal is over in which the follow of one follower failed and that
\* of another succeeded: the second was visited, the first was not
C27_Witness ==
  /\ pc = "report"
  /\ \E a, b \in Calls("follow") :
       /\ ~trace[a].ok /\ trace[a].user \notin processedUsers
       /\ trace[b].ok /\ trace[b].user \in processedUsers \ {targetUser}

\* the accounts for which a call of one kind made in one phase returned true
OkUsers(op, phase) ==
  {trace[k].user : k \in {c \in Calls(op) : trace[c].phase = phase /\ trace[c].ok}}

\* C28: the in-memory following set tracks the completed actions: when the
\* traversal starts it holds the fetched following list and the accounts
\* whose follow-back call returned true, less the accounts whose unfollow
\* call returned true; during the traversal it grows by exactly the accounts
\* whose follow call returned true.
C28_FollowingSetTracksActions ==
  DiffComputed =>
    followingSet =
      ((Range(following) \cup OkUsers("follow", "followBack"))
          \ OkUsers("unfollow", "unfollow"))
        \cup OkUsers("follow", "stalk")

\* a live run in which a follow-back and an unfollow succeeded, and the
\* traversal followed one account and failed to follow another
C28_Witness ==
  /\ pc = "report" /\ ~isDryRun
  /\ OkUsers("follow", "followBack") # {}
  /\ OkUsers("unfollow", "unfollow") # {}
  /\ OkUsers("follow", "stalk") # {}
  /\ \E a \in Calls("follow") : trace[a].phase = "stalk" /\ ~trace[a].ok

\* C29: a paginated fetch makes no further page request after a page that
\* returned fewer entries than were requested, or none: every page of
\* getAllFollowing / getAllFollowers that is followed by another request of
\* the same fetch was full.
C29_NoRequestAfterShortPage ==
  \A a, b \in Calls("page") :
    (a < b /\ trace[a].user = trace[b].user) => Len(trace[a].got) = PER_PAGE

\* C30: with the same seed, follower graph, initial following set and
\* bounds, and every follow call returning true, dfsStalk and bfsStalk end
\* having followed the same set of accounts.
C30_StrategiesFollowSameSet ==
  (previous.ran /\ pc = "done") => followedBy(trace) = previous.followed

\* the accounts within k hops of the seed along follower edges
RECURSIVE Hops(_)
Hops(k) ==
  IF k = 0 THEN {targetUser}
  ELSE LET S == Hops(k - 1) IN
       S \cup UNION {Range(graph[u]) : u \in S \cap DOMAIN graph}
\* the accounts within maxDepth hops of the seed
WithinMaxDepth ==
  IF maxDepth = Infinity THEN FollowersClosure({targetUser}) ELSE Hops(maxDepth)

\* C31: every account of the visited set is reachable from the seed along
\* follower edges in at most maxDepth hops, so the visited set is never
\* larger than the set of accounts within maxDepth hops of the seed; an
\* account whose followers are fetched at depth d is within d hops.
C31_VisitedWithinDepth ==
  /\ processedUsers \subseteq WithinMaxDepth
  /\ Cardinality(processedUsers) <= Cardinality(WithinMaxDepth)
  /\ \A a \in Calls("fetch") : trace[a].user \in Hops(trace[a].depth)

\* a traversal with maxDepth 1 is over: it visited the seed only, while two
\* followers of the seed were followed and left unvisited
C31_Witness ==
  /\ pc = "report" /\ maxDepth = 1
  /\ processedUsers = {targetUser}
  /\ Cardinality(followedBy(trace)) = 2
  /\ Cardinality(WithinMaxDepth) = 3

\* C32: the followed value returned by the top-level dfsStalk call is the
\* number of followUser calls that returned true during the whole
\* traversal, and equals dfsStats.totalFollowed.
C32_DfsResultAggregates ==
  (strategy = "dfs" /\ pc = "report") =>
    /\ stalkResult.followed = Outcomes("follow", "stalk", TRUE)
    /\ stalkResult.followed = stats.totalFollowed

\* a depth-first traversal is over in which a follow was made by the
\* top-level call and another by a recursive call
C32_Witness ==
  /\ strategy = "dfs" /\ pc = "report"
  /\ stalkResult.followed >= 2
  /\ \E a, b \in Calls("follow") :
       /\ trace[a].ok /\ trace[a].depth = 0
       /\ trace[b].ok /\ trace[b].depth = 1
  /\ \E c \in Calls("follow") : ~trace[c].ok

\* the accounts dequeued so far, in order, and those waiting in the queue
Dequeued ==
  LET made == SelectSeq(trace, LAMBDA e : e.op = "dequeue") IN
  [k \in 1..Len(made) |-> made[k].user]
Queued == [k \in 1..Len(queue) |-> queue[k].username]

\* C33: in bfsStalk an account is put in the queue at most once, the seed
\* only at the start, and a queued node has a depth below a bounded
\* maxDepth; so every dequeued node is expanded (its followers are fetched:
\* neither the depth-limit nor the already-processed branch is taken), and
\* at the end bfsStats.totalProcessed is the size of the visited set.
C33_BfsQueuedOnce ==
  strategy = "bfs" =>
    /\ IsDupFree(Dequeued \o Queued)
    /\ \A k \in 1..Len(queue) :
         /\ queue[k].username \notin processedUsers
         /\ maxDepth # Infinity => queue[k].depth < maxDepth
         /\ queue[k].username = targetUser => Dequeued = <<>>
    /\ \A c \in Calls("dequeue") :
         /\ c < Len(trace)
         /\ trace[c + 1].op = "fetch" /\ trace[c + 1].cid = trace[c].cid
    /\ pc = "report" => stats.totalProcessed = Cardinality(processedUsers)

\* a breadth-first traversal is over in which the seed came up among the
\* followers of a node, an account came up among the followers of two
\* nodes, and three nodes were dequeued and expanded
C33_Witness ==
  /\ strategy = "bfs" /\ pc = "report"
  /\ stats.totalProcessed = 3
  /\ \E a \in Calls("fetch") : trace[a].depth > 0 /\ targetUser \in Range(trace[a].got)
  /\ \E a, b \in Calls("fetch") :
       a # b /\ (Range(trace[a].got) \cap Range(trace[b].got)) \ {targetUser} # {}

\* C34: when bfsStalk ends, bfsStats.levelsProcessed is
\* bfsStats.maxDepthReached + 1: one increment for every level the dequeued
\* nodes open, and one at the end; a seed without followers gives 1.
C34_BfsLevelsProcessed ==
  (strategy = "bfs" /\ pc = "report") =>
    /\ stats.levelsProcessed = stats.maxDepthReached + 1
    /\ Len(graph[targetUser]) = 0 => stats.levelsProcessed = 1

\* a breadth-first traversal is over that dequeued two nodes of depth 1 and
\* one of depth 2: three levels for four nodes
C34_Witness ==
  /\ strategy = "bfs" /\ pc = "report"
  /\ stats.maxDepthReached = 2 /\ stats.levelsProcessed = 3
  /\ stats.totalProcessed = 4

\* C35: when dfsStalk ends, dfsStats.totalProcessed is
\* dfsStats.totalFollowed + 1: one call for the seed and one for every
\* follow that returned true, the calls that return at the depth limit or at
\* the visited test included, so that totalProcessed can be larger than the
\* visited set.
C35_DfsProcessedCount ==
  (strategy = "dfs" /\ pc = "report") =>
    /\ stats.totalProcessed = stats.totalFollowed + 1
    /\ stats.totalProcessed >= Cardinality(processedUsers)

\* a depth-first traversal is over in which one call returned at the depth
\* limit or at the visited test, and one follow failed
C35_Witness ==
  /\ strategy = "dfs" /\ pc = "report"
  /\ stats.totalProcessed > Cardinality(processedUsers)
  /\ Cardinality(processedUsers) >= 2
  /\ \E a \in Calls("follow") : ~trace[a].ok

\* C36: bfsStalk never calls followUser on an account that is in the
\* visited set: a follow call on an account comes before the fetch of that
\* account's followers, and the seed is never followed, even when it is
\* among the followers of an expanded node and is not followed yet.
C36_BfsNeverFollowsVisited ==
  strategy = "bfs" =>
    \A a \in Calls("follow") :
      /\ trace[a].user # targetUser
      /\ \A c \in Calls("fetch") : trace[c].user = trace[a].user => a < c

\* a breadth-first traversal is over: the seed, which is not followed, was
\* among the followers fetched for another node, and no follow call was
\* made on it, while another follower of that node was followed
C36_Witness ==
  /\ strategy = "bfs" /\ pc = "report"
  /\ targetUser \notin followingSet /\ targetUser # username
  /\ \E c \in Calls("fetch") :
       /\ trace[c].depth > 0
       /\ targetUser \in Range(trace[c].got)
       /\ \E a \in Calls("follow") : trace[a].cid = trace[c].cid
  /\ \A a \in Calls("follow") : trace[a].user # targetUser

=============================================================================
